---- MODULE Spec2Model ----
(***************************************************************************)
(* The AppFuse request loop of MtpDocumentsProvider                        *)
(* (packages/MtpDocumentsProvider/jni/com_android_mtp_AppFuse.cpp).        *)
(*                                                                         *)
(* One session: the loop reads a FUSE frame from the device, dispatches it *)
(* to a handler of class AppFuse, and the handler's result is written back *)
(* by fuse_reply.  The state of a session is the handle table handles_ and *)
(* the counter handle_counter_; the kernel (requests) and the Java content *)
(* provider (getFileSize, getObjectBytes) are the environment, and their   *)
(* values are drawn from the small sets defined below.                     *)
(*                                                                         *)
(* 64-bit quantities (unique, nodeid, fh, offset, the file size) are kept  *)
(* at their real width as four 16-bit limbs, least significant first, so   *)
(* that the conversions the code performs on them (uint64_t -> int,        *)
(* int64_t - uint64_t) are computed rather than assumed.                   *)
(*                                                                         *)
(* Two quantities are scaled: the handle counter counts modulo             *)
(* HANDLE_RANGE instead of 2^32 and the table holds NUM_MAX_HANDLES        *)
(* entries instead of 1024, so that a full table and a wrapped counter are *)
(* reachable.                                                              *)
(***************************************************************************)
EXTENDS Integers, Sequences, FiniteSets, TLC

\* ------------------------------------------------------------------ bounds

\* Number of values of handle_counter_ and of the table's keys (uint32_t in
\* the source: 2^32).
HANDLE_RANGE == 3

\* Capacity of the handle table (1024 in the source, line 42).
NUM_MAX_HANDLES == 2

\* ------------------------------------------------------- program constants

MAX_READ == 131072

ENOENT == 2
EIO == 5
EBADF == 9
ENODEV == 19
EINVAL == 22
EMFILE == 24
ENOSYS == 38

FUSE_KERNEL_VERSION == 7
FUSE_COMPAT_22_INIT_OUT_SIZE == 24
FUSE_ATOMIC_O_TRUNC == 8
FUSE_BIG_WRITES == 32
MAX_WRITE == 262144

SIZEOF_fuse_in_header == 40
SIZEOF_fuse_out_header == 16
SIZEOF_fuse_entry_out == 128
SIZEOF_fuse_attr_out == 104
SIZEOF_fuse_open_out == 16
SIZEOF_fuse_init_out == 64

\* ------------------------------------------------- fixed-width arithmetic

LIMB == 65536

HALF_LIMB == 32768

U64Zero == <<0, 0, 0, 0>>

\* A natural number below 2^31 as a uint64_t.
U64FromNat(n) == <<n % LIMB, (n \div LIMB) % LIMB, 0, 0>>

\* a - b modulo 2^64 (unsigned subtraction wraps).
U64Sub(a, b) ==
    LET d1 == a[1] - b[1]
        c1 == IF d1 < 0 THEN 1 ELSE 0
        d2 == a[2] - b[2] - c1
        c2 == IF d2 < 0 THEN 1 ELSE 0
        d3 == a[3] - b[3] - c2
        c3 == IF d3 < 0 THEN 1 ELSE 0
        d4 == a[4] - b[4] - c3
    IN  <<d1 % LIMB, d2 % LIMB, d3 % LIMB, d4 % LIMB>>

\* A signed value (int, int64_t) converted to uint64_t: two's complement.
U64FromInt(n) == IF n >= 0 THEN U64FromNat(n) ELSE U64Sub(U64Zero, U64FromNat(-n))

\* a < b as unsigned 64-bit values.
U64Less(a, b) ==
    \/ a[4] < b[4]
    \/ a[4] = b[4] /\ a[3] < b[3]
    \/ a[4] = b[4] /\ a[3] = b[3] /\ a[2] < b[2]
    \/ a[4] = b[4] /\ a[3] = b[3] /\ a[2] = b[2] /\ a[1] < b[1]

\* std::min on uint64_t.
U64Min(a, b) == IF U64Less(b, a) THEN b ELSE a

\* static_cast<int>(uint64_t): the low 32 bits, read as a signed value.
U64ToInt(a) ==
    IF a[2] < HALF_LIMB THEN a[2] * LIMB + a[1] ELSE (a[2] - LIMB) * LIMB + a[1]

\* static_cast<uint32_t>(uint64_t): the low 32 bits.  Every value the model
\* converts is at most a request's size, which is below 2^31.
U64ToU32(a) == a[2] * LIMB + a[1]

\* uint64_t -> uint32_t, on the scaled range of the table's keys.
ToHandle(fh) == fh % HANDLE_RANGE

\* ------------------------------------------------------------ environment

\* header.unique of the requests: 7, and 2^32 + 2^31 + 7, which does not fit in
\* 32 bits and has bit 31 set.  No handler reads header.unique; LOOKUP and
\* READ requests, the most numerous, carry the first value only.
Uniques == { <<7, 0, 0, 0>>, <<7, HALF_LIMB, 1, 0>> }

SmallUniques == { <<7, 0, 0, 0>> }

ROOT == U64FromNat(1)

\* header.nodeid of the requests: the root, a file, and 2^32 + 5.
NodeIds == { ROOT, U64FromNat(5), <<5, 0, 1, 0>> }

\* header.nodeid of OPEN: the root, 0, and 2^32 + 5.
OpenNodeIds == { ROOT, U64Zero, <<5, 0, 1, 0>> }

\* in.fh of READ and RELEASE: every key of the table, and one value beyond
\* the key width.
Fhs == 0 .. HANDLE_RANGE

\* in.size of READ.
ReadSizes == { 4, 128, MAX_READ + 1 }

\* in.offset of READ.
ReadOffsets == { U64FromNat(0), U64FromNat(9), U64FromNat(11) }

\* Entry names of LOOKUP, as sequences of characters.
Names == { <<"4", "2">>, <<"0">>, <<"-", "5">>, <<"a">>, <<"7", "a">>, <<>> }

\* in.major of INIT: the version the code was built for, and the next.
InitMajors == { FUSE_KERNEL_VERSION, FUSE_KERNEL_VERSION + 1 }

\* in.minor of INIT.
InitMinors == { 5, 6, 22, 23 }

\* in.max_readahead of INIT.
InitReadaheads == { 4096, MAX_READ }

\* What getFileSize answers: absent, empty, ten bytes.
FileSizes == { -1, 0, 10 }

\* What getObjectBytes answers: null, or a byte array of one of these lengths.
Arrays ==
    { [isnull |-> TRUE, length |-> 0] } \cup
    { [isnull |-> FALSE, length |-> n] : n \in { 0, 1, 4, 10, 128 } }

\* ------------------------------------------------------------ the handlers

\* What a handler leaves behind: its return value, FuseResponse::size_, the
\* bytes it put in the output buffer, the session state, the upcalls to the
\* provider it made, and its accesses to the request's buffer, in order.
Outcome(code, size, data, h, c, calls, acc) ==
    [reply_code |-> code, size |-> size, data |-> data,
     handles |-> h, counter |-> c, calls |-> calls, acc |-> acc]

\* The accesses to FuseRequest::buffer.  The header is the first
\* sizeof(fuse_in_header) bytes; the rest, data(), holds the request's payload
\* and is the buffer of the FuseResponse.  Reading a field of the header:
RdHeader(what) == [op |-> "read", region |-> "header", what |-> what, bytes |-> 0]

\* Reading a field of the request's payload.
RdIn(what) == [op |-> "read", region |-> "data", what |-> what, bytes |-> 0]

\* Writing `bytes` bytes of the response (prepare_buffer's memset, a field of
\* out->data(), get_object_bytes's memcpy).
WrOut(what, bytes) == [op |-> "write", region |-> "data", what |-> what, bytes |-> bytes]

NoData == [kind |-> "none"]

\* get_file_size: the upcall getFileSize(inode), which answered file_size.
get_file_size(inode, file_size) ==
    [method |-> "getFileSize", inode |-> inode, returned |-> file_size]

\* atoi: leading white space, an optional sign, then the leading digits.
DigitChars == <<"0", "1", "2", "3", "4", "5", "6", "7", "8", "9">>

IsDigit(ch) == \E i \in 1 .. 10 : DigitChars[i] = ch

DigitVal(ch) == (CHOOSE i \in 1 .. 10 : DigitChars[i] = ch) - 1

RECURSIVE SkipSpace(_, _)
SkipSpace(s, i) ==
    IF i <= Len(s) /\ s[i] = " " THEN SkipSpace(s, i + 1) ELSE i

RECURSIVE Digits(_, _, _)
Digits(s, i, acc) ==
    IF i <= Len(s) /\ IsDigit(s[i])
    THEN Digits(s, i + 1, acc * 10 + DigitVal(s[i]))
    ELSE acc

atoi(s) ==
    LET i == SkipSpace(s, 1)
    IN  IF i <= Len(s) /\ s[i] = "-" THEN 0 - Digits(s, i + 1, 0)
        ELSE IF i <= Len(s) /\ s[i] = "+" THEN Digits(s, i + 1, 0)
        ELSE Digits(s, i, 0)

handle_fuse_lookup(header, name, h, c, file_size) ==
    IF header.nodeid # ROOT
    THEN Outcome(0 - ENOENT, 0, NoData, h, c, <<>>, <<RdHeader("nodeid")>>)
    ELSE LET n == atoi(name)
         IN  IF n = 0
             THEN Outcome(0 - ENOENT, 0, NoData, h, c, <<>>,
                          <<RdHeader("nodeid"), RdIn("name")>>)
             ELSE IF file_size < 0
             THEN Outcome(0 - ENOENT, 0, NoData, h, c, <<get_file_size(n, file_size)>>,
                          <<RdHeader("nodeid"), RdIn("name")>>)
             ELSE Outcome(0, SIZEOF_fuse_entry_out,
                          [kind |-> "fuse_entry_out",
                           nodeid |-> U64FromInt(n),
                           attr_valid |-> 10,
                           entry_valid |-> 10,
                           ino |-> U64FromInt(n),
                           mode |-> "S_IFREG|0777",
                           size |-> U64FromInt(file_size)],
                          h, c, <<get_file_size(n, file_size)>>,
                          <<RdHeader("nodeid"), RdIn("name"),
                            WrOut("prepare_buffer", SIZEOF_fuse_entry_out),
                            WrOut("nodeid", 8), WrOut("attr_valid", 8),
                            WrOut("entry_valid", 8), WrOut("attr.ino", 8),
                            WrOut("attr.mode", 4), WrOut("attr.size", 8)>>)

Min(a, b) == IF a < b THEN a ELSE b

\* handle_fuse_init reporting the kernel's minor as it came.
handle_fuse_init_echoes_minor(in, h, c) ==
    IF in.major # FUSE_KERNEL_VERSION \/ in.minor < 6
    THEN Outcome(0 - 1, 0, NoData, h, c, <<>>,
                 IF in.major # FUSE_KERNEL_VERSION THEN <<RdIn("major")>>
                 ELSE <<RdIn("major"), RdIn("minor")>>)
    ELSE LET minor == in.minor
             max_readahead == in.max_readahead
             response_size == IF minor <= 22 THEN FUSE_COMPAT_22_INIT_OUT_SIZE
                              ELSE SIZEOF_fuse_init_out
         IN  Outcome(0, response_size,
                     [kind |-> "fuse_init_out",
                      major |-> FUSE_KERNEL_VERSION,
                      minor |-> minor,
                      max_readahead |-> max_readahead,
                      flags |-> FUSE_ATOMIC_O_TRUNC + FUSE_BIG_WRITES,
                      max_background |-> 32,
                      congestion_threshold |-> 32,
                      max_write |-> MAX_WRITE],
                     h, c, <<>>,
                     <<RdIn("major"), RdIn("minor"), RdIn("minor"),
                       RdIn("max_readahead"),
                       WrOut("prepare_buffer", response_size),
                       WrOut("major", 4), WrOut("minor", 4),
                       WrOut("max_readahead", 4), WrOut("flags", 4),
                       WrOut("max_background", 2),
                       WrOut("congestion_threshold", 2), WrOut("max_write", 4)>>)

\* handle_fuse_init without the copies of in->minor and in->max_readahead
\* made before the output is written: both are read from the buffer that
\* prepare_buffer has zeroed.
handle_fuse_init_reads_late(in, h, c) ==
    IF in.major # FUSE_KERNEL_VERSION \/ in.minor < 6
    THEN Outcome(0 - 1, 0, NoData, h, c, <<>>,
                 IF in.major # FUSE_KERNEL_VERSION THEN <<RdIn("major")>>
                 ELSE <<RdIn("major"), RdIn("minor")>>)
    ELSE LET response_size == IF in.minor <= 22 THEN FUSE_COMPAT_22_INIT_OUT_SIZE
                              ELSE SIZEOF_fuse_init_out
         IN  Outcome(0, response_size,
                     [kind |-> "fuse_init_out",
                      major |-> FUSE_KERNEL_VERSION,
                      minor |-> 0,
                      max_readahead |-> 0,
                      flags |-> FUSE_ATOMIC_O_TRUNC + FUSE_BIG_WRITES,
                      max_background |-> 32,
                      congestion_threshold |-> 32,
                      max_write |-> MAX_WRITE],
                     h, c, <<>>,
                     <<RdIn("major"), RdIn("minor"), RdIn("minor"),
                       WrOut("prepare_buffer", response_size),
                       WrOut("major", 4), RdIn("minor"), WrOut("minor", 4),
                       RdIn("max_readahead"),
                       WrOut("max_readahead", 4), WrOut("flags", 4),
                       WrOut("max_background", 2),
                       WrOut("congestion_threshold", 2), WrOut("max_write", 4)>>)

handle_fuse_init(in, h, c) ==
    IF in.major # FUSE_KERNEL_VERSION \/ in.minor < 6
    THEN Outcome(0 - 1, 0, NoData, h, c, <<>>,
                 IF in.major # FUSE_KERNEL_VERSION THEN <<RdIn("major")>>
                 ELSE <<RdIn("major"), RdIn("minor")>>)
    ELSE LET minor == in.minor
             max_readahead == in.max_readahead
             response_size == IF minor <= 22 THEN FUSE_COMPAT_22_INIT_OUT_SIZE
                              ELSE SIZEOF_fuse_init_out
         IN  Outcome(0, response_size,
                     [kind |-> "fuse_init_out",
                      major |-> FUSE_KERNEL_VERSION,
                      minor |-> Min(minor, 15),
                      max_readahead |-> max_readahead,
                      flags |-> FUSE_ATOMIC_O_TRUNC + FUSE_BIG_WRITES,
                      max_background |-> 32,
                      congestion_threshold |-> 32,
                      max_write |-> MAX_WRITE],
                     h, c, <<>>,
                     <<RdIn("major"), RdIn("minor"), RdIn("minor"),
                       RdIn("max_readahead"),
                       WrOut("prepare_buffer", response_size),
                       WrOut("major", 4), WrOut("minor", 4),
                       WrOut("max_readahead", 4), WrOut("flags", 4),
                       WrOut("max_background", 2),
                       WrOut("congestion_threshold", 2), WrOut("max_write", 4)>>)

handle_fuse_getattr(header, h, c, file_size) ==
    IF header.nodeid = ROOT
    THEN Outcome(0, SIZEOF_fuse_attr_out,
                 [kind |-> "fuse_attr_out", attr_valid |-> 10,
                  ino |-> header.nodeid, mode |-> "S_IFDIR|0777",
                  size |-> U64Zero],
                 h, c, <<>>,
                 <<WrOut("prepare_buffer", SIZEOF_fuse_attr_out),
                   WrOut("attr_valid", 8), RdHeader("nodeid"),
                   WrOut("attr.ino", 8), RdHeader("nodeid"),
                   WrOut("attr.mode", 4), WrOut("attr.size", 8)>>)
    ELSE LET call == get_file_size(U64ToInt(header.nodeid), file_size)
         IN  IF file_size < 0
             THEN Outcome(0 - ENOENT, SIZEOF_fuse_attr_out,
                          [kind |-> "fuse_attr_out", attr_valid |-> 10,
                           ino |-> header.nodeid, mode |-> "",
                           size |-> U64Zero],
                          h, c, <<call>>,
                          <<WrOut("prepare_buffer", SIZEOF_fuse_attr_out),
                            WrOut("attr_valid", 8), RdHeader("nodeid"),
                            WrOut("attr.ino", 8), RdHeader("nodeid"),
                            RdHeader("nodeid")>>)
             ELSE Outcome(0, SIZEOF_fuse_attr_out,
                          [kind |-> "fuse_attr_out", attr_valid |-> 10,
                           ino |-> header.nodeid, mode |-> "S_IFREG|0777",
                           size |-> U64FromInt(file_size)],
                          h, c, <<call>>,
                          <<WrOut("prepare_buffer", SIZEOF_fuse_attr_out),
                            WrOut("attr_valid", 8), RdHeader("nodeid"),
                            WrOut("attr.ino", 8), RdHeader("nodeid"),
                            RdHeader("nodeid"),
                            WrOut("attr.mode", 4), WrOut("attr.size", 8)>>)

\* The smallest value that is not a key of the table, whatever the counter.
NextHandle_lowest(h, c) ==
    CHOOSE t \in 0 .. HANDLE_RANGE - 1 :
        t \notin DOMAIN h /\ \A u \in 0 .. t - 1 : u \in DOMAIN h

\* The do/while of handle_fuse_open: the first value from the counter on that
\* is not a key of the table.
RECURSIVE NextHandle(_, _)
NextHandle(h, c) ==
    IF c \in DOMAIN h THEN NextHandle(h, (c + 1) % HANDLE_RANGE) ELSE c

Insert(h, k, v) == [t \in DOMAIN h \cup {k} |-> IF t \in DOMAIN h THEN h[t] ELSE v]

Erase(h, k) == [t \in DOMAIN h \ {k} |-> h[t]]

\* handle_fuse_open with the test for a full table off by one.
handle_fuse_open_off_by_one(header, h, c) ==
    IF Cardinality(DOMAIN h) > NUM_MAX_HANDLES
    THEN Outcome(0 - EMFILE, 0, NoData, h, c, <<>>, <<>>)
    ELSE LET handle == NextHandle(h, c)
         IN  Outcome(0, SIZEOF_fuse_open_out,
                     [kind |-> "fuse_open_out", fh |-> handle],
                     Insert(h, handle, header.nodeid),
                     (handle + 1) % HANDLE_RANGE, <<>>,
                     <<RdHeader("nodeid"),
                       WrOut("prepare_buffer", SIZEOF_fuse_open_out),
                       WrOut("fh", 8)>>)

\* handle_fuse_open drawing from the counter before the test for a full table.
handle_fuse_open_counts_first(header, h, c) ==
    IF Cardinality(DOMAIN h) >= NUM_MAX_HANDLES
    THEN Outcome(0 - EMFILE, 0, NoData, h, (c + 1) % HANDLE_RANGE, <<>>, <<>>)
    ELSE LET handle == NextHandle(h, c)
         IN  Outcome(0, SIZEOF_fuse_open_out,
                     [kind |-> "fuse_open_out", fh |-> handle],
                     Insert(h, handle, header.nodeid),
                     (handle + 1) % HANDLE_RANGE, <<>>,
                     <<RdHeader("nodeid"),
                       WrOut("prepare_buffer", SIZEOF_fuse_open_out),
                       WrOut("fh", 8)>>)

\* handle_fuse_open refusing the nodeid 0.
handle_fuse_open_refuses_zero(header, h, c) ==
    IF Cardinality(DOMAIN h) >= NUM_MAX_HANDLES
    THEN Outcome(0 - EMFILE, 0, NoData, h, c, <<>>, <<>>)
    ELSE IF header.nodeid = U64Zero
    THEN Outcome(0 - ENOENT, 0, NoData, h, c, <<>>, <<RdHeader("nodeid")>>)
    ELSE LET handle == NextHandle(h, c)
         IN  Outcome(0, SIZEOF_fuse_open_out,
                     [kind |-> "fuse_open_out", fh |-> handle],
                     Insert(h, handle, header.nodeid),
                     (handle + 1) % HANDLE_RANGE, <<>>,
                     <<RdHeader("nodeid"),
                       WrOut("prepare_buffer", SIZEOF_fuse_open_out),
                       WrOut("fh", 8)>>)

handle_fuse_open(header, h, c) ==
    IF Cardinality(DOMAIN h) >= NUM_MAX_HANDLES
    THEN Outcome(0 - EMFILE, 0, NoData, h, c, <<>>, <<>>)
    ELSE LET handle == NextHandle(h, c)
         IN  Outcome(0, SIZEOF_fuse_open_out,
                     [kind |-> "fuse_open_out", fh |-> handle],
                     Insert(h, handle, header.nodeid),
                     (handle + 1) % HANDLE_RANGE, <<>>,
                     <<RdHeader("nodeid"),
                       WrOut("prepare_buffer", SIZEOF_fuse_open_out),
                       WrOut("fh", 8)>>)

\* The result of get_object_bytes and the upcalls it makes; file_size and
\* array are the provider's answers.
ReadSize(size, offset, file_size) ==
    U64ToU32(U64Min(U64FromNat(size), U64Sub(U64FromInt(file_size), offset)))

get_object_bytes(inode, offset, size, file_size, array) ==
    LET read_size == ReadSize(size, offset, file_size)
        calls == << get_file_size(inode, file_size),
                    [method |-> "getObjectBytes", inode |-> inode,
                     offset |-> offset, size |-> read_size] >>
    IN  IF array.isnull THEN [result |-> 0 - 1, calls |-> calls, acc |-> <<>>]
        ELSE IF array.length # read_size
        THEN [result |-> 0 - 1, calls |-> calls, acc |-> <<>>]
        ELSE [result |-> read_size, calls |-> calls,
              acc |-> <<WrOut("memcpy", read_size)>>]

handle_fuse_read(in, h, c, file_size, array) ==
    IF in.size > MAX_READ
    THEN Outcome(0 - EINVAL, 0, NoData, h, c, <<>>, <<RdIn("size")>>)
    ELSE IF ToHandle(in.fh) \notin DOMAIN h
    THEN Outcome(0 - EBADF, 0, NoData, h, c, <<>>, <<RdIn("size"), RdIn("fh")>>)
    ELSE LET r == get_object_bytes(U64ToInt(h[ToHandle(in.fh)]), in.offset,
                                   in.size, file_size, array)
             acc == <<RdIn("size"), RdIn("fh"), RdIn("offset"), RdIn("size"),
                      WrOut("prepare_buffer", 0)>> \o r.acc
         IN  IF r.result < 0
             THEN Outcome(0 - EIO, 0, NoData, h, c, r.calls, acc)
             ELSE Outcome(0, r.result, [kind |-> "bytes", length |-> r.result],
                          h, c, r.calls, acc)

\* handle_fuse_release without the erase.
handle_fuse_release_keeps(in, h, c) ==
    Outcome(0, 0, NoData, h, c, <<>>, <<RdIn("fh")>>)

\* handle_fuse_release erasing the neighbouring key.
handle_fuse_release_other(in, h, c) ==
    Outcome(0, 0, NoData, Erase(h, ToHandle(in.fh + 1)), c, <<>>, <<RdIn("fh")>>)

handle_fuse_release(in, h, c) ==
    Outcome(0, 0, NoData, Erase(h, ToHandle(in.fh)), c, <<>>, <<RdIn("fh")>>)

\* handle_fuse_flush drawing a value from the counter.
handle_fuse_flush_counts(h, c) ==
    Outcome(0, 0, NoData, h, (c + 1) % HANDLE_RANGE, <<>>, <<>>)

handle_fuse_flush(h, c) == Outcome(0, 0, NoData, h, c, <<>>, <<>>)

\* ---------------------------------------------------------------- replying

\* fuse_reply without the reset of reply_size for an error.
fuse_reply_keeps_size(unique, reply_code, reply_data, reply_size) ==
    LET size == reply_size
    IN  [written |-> TRUE,
         len |-> size + SIZEOF_fuse_out_header,
         error |-> reply_code,
         unique |-> U64FromInt(unique),
         iovcnt |-> IF size # 0 THEN 2 ELSE 1,
         iov_len |-> size,
         payload |-> IF size # 0 THEN reply_data ELSE NoData]

\* What fuse_reply hands to writev: the header, the number of segments, the
\* length of the second segment and, when it is written, its contents.
fuse_reply(unique, reply_code, reply_data, reply_size) ==
    LET size == IF reply_code # 0 THEN 0 ELSE reply_size
    IN  [written |-> TRUE,
         len |-> size + SIZEOF_fuse_out_header,
         error |-> reply_code,
         unique |-> U64FromInt(unique),
         iovcnt |-> IF size # 0 THEN 2 ELSE 1,
         iov_len |-> size,
         payload |-> IF size # 0 THEN reply_data ELSE NoData]

\* invoke_handler: the reply to a request whose handler ended as `out`.  The
\* request's 64-bit unique is passed to fuse_reply's int parameter.
invoke_handler(req, out) ==
    fuse_reply(U64ToInt(req.unique), out.reply_code, out.data, out.size)

\* --------------------------------------------------------------- the state

VARIABLES
    handles_,         \* AppFuse::handles_: file handle -> inode
    handle_counter_,  \* AppFuse::handle_counter_
    pc,               \* where the loop is: "read", "dispatch", "replied", "done"
    frame,            \* what the last read() on the device returned
    request,          \* the request in the buffer
    response_size,    \* FuseResponse::size_ when the handler returned
    reply,            \* what was handed to writev for that request
    res,              \* what that writev returned
    calls,            \* the upcalls to the provider made for that request
    accesses,         \* the accesses to the buffer made for that request
    result,           \* the value the loop returned
    watched,          \* observer: the fh of a handled RELEASE that is followed
    reissued,         \* observer: an OPEN has issued the watched fh again
    trip,             \* observer: progress of an OPEN, READ, RELEASE sequence
    lap               \* observer: how far the counter went since a token's issue

vars == <<handles_, handle_counter_, pc, frame, request, response_size, reply,
          res, calls, accesses, result, watched, reissued, trip, lap>>

NoFrame == [result |-> 0, errno |-> 0, hdr_len |-> 0]

NoRequest == [opcode |-> "none", unique |-> U64Zero, nodeid |-> U64Zero,
              in |-> [kind |-> "none"]]

NoReply == [written |-> FALSE, len |-> 0, error |-> 0, unique |-> U64Zero,
            iovcnt |-> 0, iov_len |-> 0, payload |-> NoData]

EmptyTable == [t \in {} |-> U64Zero]

NoTrip == [phase |-> 0, pre |-> EmptyTable, fh |-> 0, read_error |-> 0]

NoLap == [token |-> 0 - 1, adv |-> 0, again |-> FALSE, skipped |-> 0]

\* What read() can return: -1 with errno ENODEV or another errno, fewer bytes
\* than an input header, a frame whose header.len is not the bytes read, and
\* a frame whose header.len is.
Frames ==
    { [result |-> 0 - 1, errno |-> ENODEV, hdr_len |-> 0],
      [result |-> 0 - 1, errno |-> EIO, hdr_len |-> 0],
      [result |-> SIZEOF_fuse_in_header - 1, errno |-> 0, hdr_len |-> 0],
      [result |-> SIZEOF_fuse_in_header + 16, errno |-> 0,
       hdr_len |-> SIZEOF_fuse_in_header + 8],
      [result |-> SIZEOF_fuse_in_header + 16, errno |-> 0,
       hdr_len |-> SIZEOF_fuse_in_header + 16] }

Req(op, nodeid, in) ==
    { [opcode |-> op, unique |-> u, nodeid |-> nodeid, in |-> in]
        : u \in IF op \in { "FUSE_LOOKUP", "FUSE_READ" } THEN SmallUniques
                ELSE Uniques }

\* The requests the kernel sends.
Requests ==
    UNION (
      { Req("FUSE_INIT", ROOT,
            [kind |-> "fuse_init_in", major |-> x[1], minor |-> x[2],
             max_readahead |-> x[3]])
          : x \in InitMajors \X InitMinors \X InitReadaheads }
      \cup
      { Req("FUSE_LOOKUP", ROOT, [kind |-> "name", name |-> n]) : n \in Names }
      \cup
      { Req("FUSE_LOOKUP", U64FromNat(5), [kind |-> "name", name |-> <<"4", "2">>]) }
      \cup
      { Req("FUSE_GETATTR", n, [kind |-> "fuse_getattr_in"]) : n \in NodeIds }
      \cup
      { Req("FUSE_OPEN", n, [kind |-> "fuse_open_in"]) : n \in OpenNodeIds }
      \cup
      { Req("FUSE_READ", U64FromNat(5),
            [kind |-> "fuse_read_in", fh |-> x[1], offset |-> x[2], size |-> x[3]])
          : x \in Fhs \X ReadOffsets \X ReadSizes }
      \cup
      { Req("FUSE_RELEASE", U64FromNat(5), [kind |-> "fuse_release_in", fh |-> f])
          : f \in Fhs }
      \cup
      { Req(op, U64FromNat(5), [kind |-> "none"])
          : op \in { "FUSE_FLUSH", "FUSE_FORGET", "FUSE_WRITE", "FUSE_STATFS" } } )

Init ==
    /\ handles_ = EmptyTable
    /\ handle_counter_ = 0
    /\ pc = "read"
    /\ frame = NoFrame
    /\ request = NoRequest
    /\ response_size = 0
    /\ reply = NoReply
    /\ res = 0
    /\ calls = <<>>
    /\ accesses = <<>>
    /\ result = "running"
    /\ watched = {}
    /\ reissued = FALSE
    /\ trip = NoTrip
    /\ lap = NoLap

\* ---------------------------------------------------------------- the loop

\* ReadFrame returning JNI_FALSE on every failed read.
ReadFrame_any_error_ends ==
    /\ pc = "read"
    /\ \E f \in Frames :
        /\ frame' = f
        /\ IF f.result < 0
           THEN pc' = "done" /\ result' = "JNI_FALSE" /\ request' = request
           ELSE IF f.result < SIZEOF_fuse_in_header
                THEN pc' = "read" /\ result' = result /\ request' = request
           ELSE IF f.hdr_len # f.result
                THEN pc' = "read" /\ result' = result /\ request' = request
           ELSE /\ pc' = "dispatch"
                /\ result' = result
                /\ \E r \in Requests : request' = r
    /\ UNCHANGED <<handles_, handle_counter_, response_size, reply, res, calls,
                   accesses>>

\* ReadFrame without the comparison of header().len with the bytes read.
ReadFrame_unchecked_len ==
    /\ pc = "read"
    /\ \E f \in Frames :
        /\ frame' = f
        /\ IF f.result < 0
           THEN IF f.errno = ENODEV
                THEN pc' = "done" /\ result' = "JNI_FALSE" /\ request' = request
                ELSE pc' = "read" /\ result' = result /\ request' = request
           ELSE IF f.result < SIZEOF_fuse_in_header
                THEN pc' = "read" /\ result' = result /\ request' = request
           ELSE /\ pc' = "dispatch"
                /\ result' = result
                /\ \E r \in Requests : request' = r
    /\ UNCHANGED <<handles_, handle_counter_, response_size, reply, res, calls,
                   accesses>>

\* The top of the loop of start_app_fuse_loop up to the dispatch: a read into
\* the buffer, and the three tests on what was read.
ReadFrame ==
    /\ pc = "read"
    /\ \E f \in Frames :
        /\ frame' = f
        /\ IF f.result < 0
           THEN IF f.errno = ENODEV
                THEN pc' = "done" /\ result' = "JNI_FALSE" /\ request' = request
                ELSE pc' = "read" /\ result' = result /\ request' = request
           ELSE IF f.result < SIZEOF_fuse_in_header
                THEN pc' = "read" /\ result' = result /\ request' = request
           ELSE IF f.hdr_len # f.result
                THEN pc' = "read" /\ result' = result /\ request' = request
           ELSE /\ pc' = "dispatch"
                /\ result' = result
                /\ \E r \in Requests : request' = r
    /\ UNCHANGED <<handles_, handle_counter_, response_size, reply, res, calls,
                   accesses>>

\* The end of a pass of the loop: handle_fuse_request returned true, the
\* request and its response go out of scope.
Continue ==
    /\ pc = "replied"
    /\ pc' = "read"
    /\ frame' = NoFrame
    /\ request' = NoRequest
    /\ response_size' = 0
    /\ reply' = NoReply
    /\ res' = 0
    /\ calls' = <<>>
    /\ accesses' = <<>>
    /\ UNCHANGED <<handles_, handle_counter_, result>>

\* The writev of fuse_reply: it is handed `rep`, and returns the bytes written
\* or -1; fuse_reply logs the failure and returns.
Writev(rep) ==
    /\ reply' = rep
    /\ res' \in { 0 - 1, rep.len }

\* The handler returned `out`: invoke_handler replies and the loop goes on.
Replied(out) ==
    /\ handles_' = out.handles
    /\ handle_counter_' = out.counter
    /\ response_size' = out.size
    /\ Writev(invoke_handler(request, out))
    /\ calls' = out.calls
    /\ accesses' = <<RdHeader("opcode")>> \o out.acc \o <<RdHeader("unique")>>
    /\ pc' = "replied"
    /\ UNCHANGED <<frame, request, result>>

Dispatch(op) == pc = "dispatch" /\ request.opcode = op

DoLookup ==
    /\ Dispatch("FUSE_LOOKUP")
    /\ \E out \in { handle_fuse_lookup(request, request.in.name, handles_,
                                        handle_counter_, file_size)
                       : file_size \in FileSizes } :
        Replied(out)

DoInit ==
    /\ Dispatch("FUSE_INIT")
    /\ Replied(handle_fuse_init(request.in, handles_, handle_counter_))

DoGetattr ==
    /\ Dispatch("FUSE_GETATTR")
    /\ \E out \in { handle_fuse_getattr(request, handles_, handle_counter_,
                                         file_size)
                       : file_size \in FileSizes } :
        Replied(out)

\* FORGET answered like FLUSH, the loop going on.
DoForget_replies ==
    /\ Dispatch("FUSE_FORGET")
    /\ Replied(handle_fuse_flush(handles_, handle_counter_))

DoForget ==
    /\ Dispatch("FUSE_FORGET")
    /\ pc' = "done"
    /\ result' = "JNI_TRUE"
    /\ accesses' = <<RdHeader("opcode")>>
    /\ UNCHANGED <<handles_, handle_counter_, frame, request, response_size,
                   reply, res, calls>>

DoOpen ==
    /\ Dispatch("FUSE_OPEN")
    /\ Replied(handle_fuse_open(request, handles_, handle_counter_))

DoRead ==
    /\ Dispatch("FUSE_READ")
    /\ \E out \in { handle_fuse_read(request.in, handles_, handle_counter_,
                                      x[1], x[2])
                       : x \in FileSizes \X Arrays } :
        Replied(out)

DoRelease ==
    /\ Dispatch("FUSE_RELEASE")
    /\ Replied(handle_fuse_release(request.in, handles_, handle_counter_))

\* FLUSH handled without a reply.
DoFlush_silent ==
    /\ Dispatch("FUSE_FLUSH")
    /\ pc' = "replied"
    /\ UNCHANGED <<handles_, handle_counter_, frame, request, response_size,
                   reply, res, calls, accesses, result>>

DoFlush ==
    /\ Dispatch("FUSE_FLUSH")
    /\ Replied(handle_fuse_flush(handles_, handle_counter_))

Handled == { "FUSE_LOOKUP", "FUSE_INIT", "FUSE_GETATTR", "FUSE_FORGET",
             "FUSE_OPEN", "FUSE_READ", "FUSE_RELEASE", "FUSE_FLUSH" }

\* The default case answering with success.
DoDefault_success ==
    /\ pc = "dispatch"
    /\ request.opcode \notin Handled
    /\ Writev(fuse_reply(U64ToInt(request.unique), 0, NoData, 0))
    /\ accesses' = <<RdHeader("opcode"), RdHeader("unique")>>
    /\ pc' = "replied"
    /\ UNCHANGED <<handles_, handle_counter_, frame, request, response_size,
                   calls, result>>

DoDefault ==
    /\ pc = "dispatch"
    /\ request.opcode \notin Handled
    /\ Writev(fuse_reply(U64ToInt(request.unique), 0 - ENOSYS, NoData, 0))
    /\ accesses' = <<RdHeader("opcode"), RdHeader("unique")>>
    /\ pc' = "replied"
    /\ UNCHANGED <<handles_, handle_counter_, frame, request, response_size,
                   calls, result>>

\* The observers stand still.
Unobserved == UNCHANGED <<watched, reissued, trip, lap>>

\* The loop: a read, then handle_fuse_request's switch on the opcode.
Next ==
    \/ ReadFrame /\ Unobserved
    \/ Continue /\ Unobserved
    \/ DoLookup /\ Unobserved
    \/ DoInit /\ Unobserved
    \/ DoGetattr /\ Unobserved
    \/ DoForget /\ Unobserved
    \/ DoOpen /\ Unobserved
    \/ DoRead /\ Unobserved
    \/ DoRelease /\ Unobserved
    \/ DoFlush /\ Unobserved
    \/ DoDefault /\ Unobserved

Spec == Init /\ [][Next]_vars

\* ------------------------------------------------------------ the observers

\* Follows one RELEASE: from any handled RELEASE on, `watched` holds the fh it
\* carried, and `reissued` tells whether an OPEN has issued that handle again
\* since the last RELEASE of it.
ObserveRelease ==
    /\ UNCHANGED <<trip, lap>>
    /\ IF pc = "dispatch" /\ request.opcode = "FUSE_RELEASE"
       THEN IF watched = {}
            THEN watched' \in { {}, {request.in.fh} } /\ reissued' = FALSE
            ELSE IF request.in.fh \in watched
            THEN watched' = watched /\ reissued' = FALSE
            ELSE UNCHANGED <<watched, reissued>>
       ELSE IF /\ pc = "dispatch"
               /\ request.opcode = "FUSE_OPEN"
               /\ reply'.error = 0
               /\ \E f \in watched : ToHandle(f) = reply'.payload.fh
       THEN watched' = watched /\ reissued' = TRUE
       ELSE UNCHANGED <<watched, reissued>>

NextRelease ==
    \/ ReadFrame /\ ObserveRelease
    \/ Continue /\ ObserveRelease
    \/ DoLookup /\ ObserveRelease
    \/ DoInit /\ ObserveRelease
    \/ DoGetattr /\ ObserveRelease
    \/ DoForget /\ ObserveRelease
    \/ DoOpen /\ ObserveRelease
    \/ DoRead /\ ObserveRelease
    \/ DoRelease /\ ObserveRelease
    \/ DoFlush /\ ObserveRelease
    \/ DoDefault /\ ObserveRelease

SpecRelease == Init /\ [][NextRelease]_vars

\* Follows the requests OPEN, then READ of the token it returned at offset 0,
\* then RELEASE of that token, handled one after the other: `trip` holds how
\* far the sequence has come, the table as it was before the OPEN, the token,
\* and the reply code of the READ.
ObserveTrip ==
    /\ UNCHANGED <<watched, reissued, lap>>
    /\ IF pc # "dispatch" THEN trip' = trip
       ELSE IF request.opcode = "FUSE_OPEN" /\ reply'.error = 0
       THEN trip' = [phase |-> 1, pre |-> handles_, fh |-> reply'.payload.fh,
                     read_error |-> 0]
       ELSE IF /\ trip.phase = 1
               /\ request.opcode = "FUSE_READ"
               /\ request.in.fh = trip.fh
               /\ request.in.offset = U64Zero
       THEN trip' = [trip EXCEPT !.phase = 2, !.read_error = reply'.error]
       ELSE IF /\ trip.phase = 2
               /\ request.opcode = "FUSE_RELEASE"
               /\ request.in.fh = trip.fh
       THEN trip' = [trip EXCEPT !.phase = 3]
       ELSE trip' = NoTrip

NextTrip ==
    \/ ReadFrame /\ ObserveTrip
    \/ Continue /\ ObserveTrip
    \/ DoLookup /\ ObserveTrip
    \/ DoInit /\ ObserveTrip
    \/ DoGetattr /\ ObserveTrip
    \/ DoForget /\ ObserveTrip
    \/ DoOpen /\ ObserveTrip
    \/ DoRead /\ ObserveTrip
    \/ DoRelease /\ ObserveTrip
    \/ DoFlush /\ ObserveTrip
    \/ DoDefault /\ ObserveTrip

SpecTrip == Init /\ [][NextTrip]_vars

\* Follows one token from the OPEN that issued it: `lap` holds the token, by
\* how much handle_counter_ has advanced since (HANDLE_RANGE standing for a
\* full turn of the counter or more), whether the last successful OPEN issued
\* the token again, and how many live values that OPEN skipped.
ObserveLap ==
    /\ UNCHANGED <<watched, reissued, trip>>
    /\ IF pc = "dispatch" /\ request.opcode = "FUSE_OPEN" /\ reply'.error = 0
       THEN LET fh == reply'.payload.fh
                d == (handle_counter_' - handle_counter_) % HANDLE_RANGE
            IN  IF lap.token < 0 \/ lap.again
                THEN lap' \in { NoLap, [NoLap EXCEPT !.token = fh] }
                ELSE lap' = [token |-> lap.token,
                             adv |-> Min(lap.adv + d, HANDLE_RANGE),
                             again |-> fh = lap.token,
                             skipped |-> IF fh = lap.token
                                         THEN (fh - handle_counter_) % HANDLE_RANGE
                                         ELSE 0]
       ELSE lap' = lap

NextLap ==
    \/ ReadFrame /\ ObserveLap
    \/ Continue /\ ObserveLap
    \/ DoLookup /\ ObserveLap
    \/ DoInit /\ ObserveLap
    \/ DoGetattr /\ ObserveLap
    \/ DoForget /\ ObserveLap
    \/ DoOpen /\ ObserveLap
    \/ DoRead /\ ObserveLap
    \/ DoRelease /\ ObserveLap
    \/ DoFlush /\ ObserveLap
    \/ DoDefault /\ ObserveLap

SpecLap == Init /\ [][NextLap]_vars

\* ------------------------------------------------------------- the claims

\* The request in the buffer has been handled and answered.
Answered(op) == pc = "replied" /\ request.opcode = op /\ reply.written

\* The step handles a request with opcode op.
Handling(op) == pc = "dispatch" /\ request.opcode = op /\ pc' # "dispatch"

\* The bytes of payload that writev puts on the device after the header.
PayloadBytes(r) == IF r.iovcnt = 2 THEN r.iov_len ELSE 0

\* max(0, file_size - offset), as an unsigned 64-bit value.
Available(file_size, offset) ==
    IF file_size < 0 \/ U64Less(U64FromInt(file_size), offset) THEN U64Zero
    ELSE U64Sub(U64FromInt(file_size), offset)

\* a <= b as unsigned 64-bit values.
U64Leq(a, b) == ~U64Less(b, a)

\* C1: the handle table never holds more than NUM_MAX_HANDLES live entries,
\* and the token in the reply of every successful OPEN was not a key of the
\* table immediately before that OPEN.
C1_TableBoundedTokenFresh ==
    /\ [](Cardinality(DOMAIN handles_) <= NUM_MAX_HANDLES)
    /\ [][ (Handling("FUSE_OPEN") /\ reply'.error = 0)
             => reply'.payload.fh \notin DOMAIN handles_ ]_vars

\* C1 witness: an OPEN has succeeded and filled the table, with a token below
\* one that is still live (the counter has wrapped).
C1_Witness ==
    /\ Answered("FUSE_OPEN")
    /\ reply.error = 0
    /\ Cardinality(DOMAIN handles_) = NUM_MAX_HANDLES
    /\ \E t \in DOMAIN handles_ : t > reply.payload.fh

\* C2 as stated: a READ carrying an fh that an earlier RELEASE carried is
\* answered -EBADF, whatever its size and offset.
C2_ReadAfterRelease ==
    (Answered("FUSE_READ") /\ request.in.fh \in watched)
        => reply.error = 0 - EBADF

\* C2 as amended: a READ of at most MAX_READ bytes carrying an fh that an
\* earlier RELEASE carried, handled before any OPEN has issued that handle
\* again, is answered -EBADF.
C2_ReadAfterReleaseUntilReissued ==
    (/\ Answered("FUSE_READ")
     /\ request.in.fh \in watched
     /\ ~reissued
     /\ request.in.size <= MAX_READ)
        => reply.error = 0 - EBADF

\* C2 witness: such a READ has been answered while other handles were live
\* and the counter had passed the released handle.
C2_Witness ==
    /\ Answered("FUSE_READ")
    /\ request.in.fh \in watched
    /\ ~reissued
    /\ request.in.size <= MAX_READ
    /\ handles_ # EmptyTable
    /\ handle_counter_ > ToHandle(request.in.fh)

\* C3: a READ answered with success carries at most in.size bytes and at
\* most file_size - offset bytes (none at or beyond the end of the file),
\* file_size being what getFileSize answered during that READ.
C3_ReadWithinFile ==
    (Answered("FUSE_READ") /\ reply.error = 0)
        => /\ PayloadBytes(reply) <= request.in.size
           /\ U64Leq(U64FromNat(PayloadBytes(reply)),
                     Available(calls[1].returned, request.in.offset))

\* C4: for a READ on a live handle with size <= MAX_READ, the size passed to
\* getObjectBytes is min(in.size, max(0, file_size - in.offset)).
C4_EffectiveSize ==
    (/\ Answered("FUSE_READ")
     /\ request.in.size <= MAX_READ
     /\ ToHandle(request.in.fh) \in DOMAIN handles_)
        => /\ Len(calls) = 2
           /\ U64FromNat(calls[2].size)
                = U64Min(U64FromNat(request.in.size),
                         Available(calls[1].returned, request.in.offset))

\* C5: every reply carries the 64-bit unique of the request it answers.
C5_UniqueEchoed == reply.written => reply.unique = request.unique

\* C6: the len of every reply header is the size of the output header plus
\* the payload bytes written, and a reply with a non-zero code is the header
\* alone, written as a single segment, whatever the handler left in the
\* output buffer.
C6_ReplyLength ==
    reply.written
        => /\ reply.len = SIZEOF_fuse_out_header + PayloadBytes(reply)
           /\ reply.error = 0 => PayloadBytes(reply) = response_size
           /\ reply.error # 0
                => /\ PayloadBytes(reply) = 0
                   /\ reply.len = SIZEOF_fuse_out_header
                   /\ reply.iovcnt = 1

\* C6 witness: GETATTR failed after it had prepared its output structure.
C6_Witness ==
    /\ Answered("FUSE_GETATTR")
    /\ reply.error = 0 - ENOENT
    /\ response_size = SIZEOF_fuse_attr_out
    /\ reply.len = SIZEOF_fuse_out_header

\* C7: a LOOKUP under the root whose name does not parse, parses as 0 or
\* parses as a negative value is answered -ENOENT, whatever getFileSize
\* answers.
C7_LookupRejectsNonPositive ==
    (/\ Answered("FUSE_LOOKUP")
     /\ request.nodeid = ROOT
     /\ atoi(request.in.name) <= 0)
        => reply.error = 0 - ENOENT

\* C8: an OPEN handled while the table holds fewer than NUM_MAX_HANDLES
\* entries succeeds with a token that is not live and adds exactly that token,
\* mapped to the request's nodeid; an OPEN handled while the table is full is
\* answered -EMFILE and leaves the table and the counter as they were; and no
\* request other than OPEN and RELEASE changes the table.  Hence, from a fresh
\* session, NUM_MAX_HANDLES OPENs with no RELEASE between them all succeed
\* with pairwise distinct tokens.
C8_OpenUntilFull ==
    [][ /\ (Handling("FUSE_OPEN") /\ Cardinality(DOMAIN handles_) < NUM_MAX_HANDLES)
            => /\ reply'.error = 0
               /\ reply'.payload.fh \notin DOMAIN handles_
               /\ DOMAIN handles_' = DOMAIN handles_ \cup {reply'.payload.fh}
               /\ \A t \in DOMAIN handles_ : handles_'[t] = handles_[t]
        /\ (Handling("FUSE_OPEN") /\ Cardinality(DOMAIN handles_) >= NUM_MAX_HANDLES)
            => /\ reply'.error = 0 - EMFILE
               /\ handles_' = handles_
               /\ handle_counter_' = handle_counter_
        /\ ~(Handling("FUSE_OPEN") \/ Handling("FUSE_RELEASE"))
            => handles_' = handles_ ]_vars

\* C8 witness: the table holds the tokens 0 .. NUM_MAX_HANDLES - 1 of the first
\* OPENs of the session, and one more OPEN has been refused.
C8_Witness ==
    /\ Answered("FUSE_OPEN")
    /\ reply.error = 0 - EMFILE
    /\ DOMAIN handles_ = 0 .. NUM_MAX_HANDLES - 1
    /\ handle_counter_ = NUM_MAX_HANDLES

\* C9: when OPEN, READ of its token at offset 0 and RELEASE of its token have
\* been handled one after the other, the table is what it was before the OPEN,
\* whether the READ succeeded or failed.
C9_RoundTrip == trip.phase = 3 => handles_ = trip.pre

\* C9 witness: the sequence has completed from a table that was not empty,
\* with a READ that failed.
C9_Witness ==
    /\ Answered("FUSE_RELEASE")
    /\ trip.phase = 3
    /\ trip.read_error # 0
    /\ trip.pre # EmptyTable

\* C10: once a FORGET has been dispatched, no reply has been written for it,
\* the loop has returned JNI_TRUE, and no further step is taken.
C10_ForgetEndsLoop ==
    /\ []((request.opcode = "FUSE_FORGET" /\ pc # "dispatch")
            => (pc = "done" /\ result = "JNI_TRUE" /\ ~reply.written))
    /\ [][pc # "done"]_vars

\* C10 witness: the loop has ended on a FORGET while handles were live.
C10_Witness ==
    /\ request.opcode = "FUSE_FORGET"
    /\ pc = "done"
    /\ result = "JNI_TRUE"
    /\ handles_ # EmptyTable

\* What the last read() returned is a failure with this errno.
ReadFailed(f, errno) == f.result < 0 /\ f.errno = errno

\* What the last read() returned is one of the three frames the loop skips:
\* a failure other than ENODEV, fewer bytes than an input header, a header
\* whose len is not the number of bytes read.
Skipped(f) ==
    \/ f.result < 0 /\ f.errno # ENODEV
    \/ f.result >= 0 /\ f.result < SIZEOF_fuse_in_header
    \/ f.result >= SIZEOF_fuse_in_header /\ f.hdr_len # f.result

\* C11: the loop has returned JNI_FALSE exactly when the last read failed
\* with ENODEV, and JNI_TRUE exactly when a FORGET was dispatched; a read
\* that fails with ENODEV and the dispatch of a FORGET end the loop, and no
\* other step does: after any other read (another error, a short or
\* malformed frame), any other request and any reply, written or failed, the
\* loop is still running.  Hence a read error other than ENODEV that repeats
\* forever keeps the loop at its read forever.
C11_LoopEnds ==
    /\ [](result = "JNI_FALSE" <=> (pc = "done" /\ ReadFailed(frame, ENODEV)))
    /\ [](result = "JNI_TRUE"
            <=> (pc = "done" /\ request.opcode = "FUSE_FORGET"))
    /\ [](pc = "done" <=> result # "running")
    /\ [][ LET enodev == pc = "read" /\ ReadFailed(frame', ENODEV)
               forget == pc = "dispatch" /\ request.opcode = "FUSE_FORGET"
           IN  /\ enodev => (pc' = "done" /\ result' = "JNI_FALSE")
               /\ forget => (pc' = "done" /\ result' = "JNI_TRUE")
               /\ ~(enodev \/ forget) => (pc' # "done" /\ result' = "running")
               /\ (pc = "read" /\ frame'.result < 0 /\ ~enodev) => pc' = "read"
        ]_vars

\* C11 witness: the loop has returned JNI_FALSE on ENODEV while handles were
\* live.
C11_Witness ==
    /\ pc = "done"
    /\ result = "JNI_FALSE"
    /\ ReadFailed(frame, ENODEV)
    /\ handles_ # EmptyTable

\* C12: a read that fails with an errno other than ENODEV, a read of fewer
\* bytes than an input header and a frame whose header len is not the number
\* of bytes read are skipped: nothing is handed to writev, no handler runs
\* (no upcall, no request dispatched), the table and the counter are as they
\* were, and the loop is at its read again.
C12_FrameSkipped ==
    [][ (pc = "read" /\ Skipped(frame'))
            => /\ pc' = "read"
               /\ result' = "running"
               /\ ~reply'.written
               /\ calls' = <<>>
               /\ request' = NoRequest
               /\ handles_' = handles_
               /\ handle_counter_' = handle_counter_ ]_vars

\* C12 witness: a frame whose header len is not the number of bytes read has
\* been skipped while handles were live.
C12_Witness ==
    /\ pc = "read"
    /\ frame.result >= SIZEOF_fuse_in_header
    /\ frame.hdr_len # frame.result
    /\ handles_ # EmptyTable
    /\ handle_counter_ # 0

\* C13: a well-framed request whose opcode has no case of its own is answered
\* by one writev of a header alone with error -ENOSYS; the table and the
\* counter are as they were, no upcall is made, and the loop goes on to its
\* next read.
C13_UnknownOpcode ==
    /\ []((pc = "replied" /\ request.opcode \notin Handled)
            => /\ reply.written
               /\ reply.error = 0 - ENOSYS
               /\ reply.iovcnt = 1
               /\ PayloadBytes(reply) = 0
               /\ reply.len = SIZEOF_fuse_out_header)
    /\ [][ (pc = "dispatch" /\ request.opcode \notin Handled)
             => /\ pc' = "replied"
                /\ ~reply.written
                /\ result' = "running"
                /\ calls' = <<>>
                /\ handles_' = handles_
                /\ handle_counter_' = handle_counter_ ]_vars
    /\ [][ (pc = "replied" /\ request.opcode \notin Handled)
             => (pc' = "read" /\ handles_' = handles_
                 /\ handle_counter_' = handle_counter_) ]_vars

\* C13 witness: a WRITE has been answered -ENOSYS while handles were live.
C13_Witness ==
    /\ pc = "replied"
    /\ request.opcode = "FUSE_WRITE"
    /\ reply.error = 0 - ENOSYS
    /\ handles_ # EmptyTable

\* C14: for every well-framed request other than FORGET, the step that
\* handles it hands exactly one reply to writev, whether that write succeeds
\* or fails; no reply is handed to writev at any other step; and a read is
\* attempted only when no request is in the buffer and no reply is pending.
\* Hence request, reply, request, reply alternate and the replies are in the
\* order of the requests.
C14_OneReplyPerRequest ==
    /\ [](pc = "read" => (~reply.written /\ request = NoRequest))
    /\ [](pc = "replied" => (reply.written /\ request # NoRequest))
    /\ [](pc = "dispatch" => ~reply.written)
    /\ [][ (pc = "dispatch" /\ request.opcode # "FUSE_FORGET")
             => /\ pc' = "replied"
                /\ reply'.written
                /\ res' \in { 0 - 1, reply'.len }
                /\ request' = request ]_vars
    /\ [][ (reply' # reply /\ reply'.written) => pc = "dispatch" ]_vars
    /\ [][ frame' # frame => (pc \in { "read", "replied" } /\ pc' # "replied") ]_vars

\* C14 witness: the one write of the reply to a LOOKUP has been attempted and
\* has failed.
C14_Witness ==
    /\ Answered("FUSE_LOOKUP")
    /\ res < 0
    /\ reply.error = 0

\* C15: an INIT is answered with success exactly when its major is
\* FUSE_KERNEL_VERSION and its minor is at least 6; the payload of a
\* successful reply carries that major, the smaller of the request's minor and
\* 15, and the request's max_readahead; a refused INIT is answered with the
\* code -1 and a header alone.
C15_InitNegotiation ==
    Answered("FUSE_INIT")
        => LET in == request.in
               ok == in.major = FUSE_KERNEL_VERSION /\ in.minor >= 6
           IN  /\ reply.error = 0 <=> ok
               /\ ok => /\ PayloadBytes(reply) > 0
                         /\ reply.payload.kind = "fuse_init_out"
                         /\ reply.payload.major = in.major
                         /\ reply.payload.minor = Min(in.minor, 15)
                         /\ reply.payload.max_readahead = in.max_readahead
               /\ ~ok => /\ reply.error = 0 - 1
                          /\ PayloadBytes(reply) = 0
                          /\ reply.payload = NoData

\* C15 witness: an INIT of minor 22 and a max_readahead other than MAX_READ
\* has been answered with minor 15.
C15_Witness ==
    /\ Answered("FUSE_INIT")
    /\ request.in.minor = 22
    /\ request.in.max_readahead # MAX_READ
    /\ reply.error = 0
    /\ reply.payload.minor = 15

\* C16: a successful OPEN maps the token it issues to the nodeid of its
\* header, no later step changes what a live token maps to, and every upcall
\* of a READ on a live token names, as its inode, the 64-bit nodeid that the
\* token maps to.
C16_TokenInode ==
    /\ [][ (Handling("FUSE_OPEN") /\ reply'.error = 0)
             => handles_'[reply'.payload.fh] = request.nodeid ]_vars
    /\ [][ \A t \in DOMAIN handles_ \cap DOMAIN handles_' :
               handles_'[t] = handles_[t] ]_vars
    /\ []((Answered("FUSE_READ") /\ ToHandle(request.in.fh) \in DOMAIN handles_)
            => \A i \in 1 .. Len(calls) :
                  U64FromInt(calls[i].inode) = handles_[ToHandle(request.in.fh)])

\* C17: handling a request other than OPEN and RELEASE (INIT, LOOKUP, GETATTR,
\* READ whether it succeeds or fails, FLUSH, FORGET, an opcode with no case)
\* leaves the table and the counter as they were, and so does every step
\* that handles no request; a RELEASE whose fh is not a key of the table
\* leaves them as they were and is answered with success.
C17_OnlyOpenReleaseChange ==
    [][ /\ ~(Handling("FUSE_OPEN") \/ Handling("FUSE_RELEASE"))
            => /\ handles_' = handles_
               /\ handle_counter_' = handle_counter_
        /\ (Handling("FUSE_RELEASE") /\ ToHandle(request.in.fh) \notin DOMAIN handles_)
            => /\ handles_' = handles_
               /\ handle_counter_' = handle_counter_
               /\ reply'.written
               /\ reply'.error = 0
               /\ PayloadBytes(reply') = 0 ]_vars

\* C17 witness: a RELEASE has been answered with success and the table is
\* full, so the fh it carried was not live.
C17_Witness ==
    /\ Answered("FUSE_RELEASE")
    /\ reply.error = 0
    /\ Cardinality(DOMAIN handles_) = NUM_MAX_HANDLES
    /\ ToHandle(request.in.fh) \notin DOMAIN handles_

\* C20: an OPEN makes no upcall, whatever its nodeid; handled while the table
\* holds fewer than NUM_MAX_HANDLES entries it is answered with success and
\* the token of its reply is live and maps to its nodeid (the root, 0, and
\* nodeids whose file the provider does not know included); the only error an
\* OPEN is answered with is -EMFILE.  The provider is asked about the file
\* first by a READ of the token: a READ of a live token of at most MAX_READ
\* bytes makes the upcalls getFileSize and getObjectBytes, and is answered
\* -EIO when the provider has no bytes to give.
C20_OpenUnchecked ==
    /\ [][ Handling("FUSE_OPEN")
             => /\ calls' = <<>>
                /\ reply'.error \in { 0, 0 - EMFILE }
                /\ Cardinality(DOMAIN handles_) < NUM_MAX_HANDLES
                     => /\ reply'.error = 0
                        /\ reply'.payload.fh \in DOMAIN handles_'
                        /\ handles_'[reply'.payload.fh] = request.nodeid ]_vars
    /\ []((/\ Answered("FUSE_READ")
            /\ request.in.size <= MAX_READ
            /\ ToHandle(request.in.fh) \in DOMAIN handles_)
            => /\ Len(calls) = 2
               /\ calls[1].method = "getFileSize"
               /\ calls[2].method = "getObjectBytes"
               /\ reply.error \in { 0, 0 - EIO })

\* C20 witness: an OPEN of the nodeid 0 has succeeded while a token of the
\* root was live.
C20_Witness ==
    /\ Answered("FUSE_OPEN")
    /\ request.nodeid = U64Zero
    /\ reply.error = 0
    /\ handles_[reply.payload.fh] = U64Zero
    /\ \E t \in DOMAIN handles_ : handles_[t] = ROOT

\* C18: handle_counter_ is a value of the counter's range (2^32 values in the
\* source, HANDLE_RANGE here); it changes only when an OPEN succeeds, and then
\* it moves forward, modulo the range, past the token issued: every value
\* from the old counter up to the token is live and skipped, the token is not
\* live, and the new counter is the token plus one.  The search ends with a
\* token whenever the table holds fewer than NUM_MAX_HANDLES entries.  A token
\* is issued a second time only when the counter has advanced by at least the
\* whole range since it was issued, that is, after it has wrapped around.
C18_CounterWraps ==
    /\ [](handle_counter_ \in 0 .. HANDLE_RANGE - 1)
    /\ [][ handle_counter_' # handle_counter_
             => (Handling("FUSE_OPEN") /\ reply'.error = 0) ]_vars
    /\ [][ (Handling("FUSE_OPEN") /\ Cardinality(DOMAIN handles_) < NUM_MAX_HANDLES)
             => (reply'.error = 0 /\ reply'.payload.fh \in 0 .. HANDLE_RANGE - 1)
        ]_vars
    /\ [][ (Handling("FUSE_OPEN") /\ reply'.error = 0)
             => LET fh == reply'.payload.fh
                    skipped == (fh - handle_counter_) % HANDLE_RANGE
                IN  /\ fh \notin DOMAIN handles_
                    /\ \A k \in 0 .. skipped - 1 :
                          (handle_counter_ + k) % HANDLE_RANGE \in DOMAIN handles_
                    /\ handle_counter_' = (fh + 1) % HANDLE_RANGE ]_vars
    /\ [](lap.again => lap.adv >= HANDLE_RANGE)

\* C18 witness: a token has been issued a second time, by an OPEN that found
\* the counter on a live value and skipped it.
C18_Witness ==
    /\ Answered("FUSE_OPEN")
    /\ reply.error = 0
    /\ lap.again
    /\ reply.payload.fh = lap.token
    /\ lap.skipped > 0

\* The access writes at least one byte of the response.
WritesOutput(a) == a.op = "write" /\ a.region = "data" /\ a.bytes > 0

\* C19: among the accesses to the buffer made for one request, by the
\* handler and by invoke_handler around it, every read that follows a write
\* of at least one byte of the response is a read of the request's header.
C19_NoInputAfterOutput ==
    \A i \in 1 .. Len(accesses) : \A j \in i + 1 .. Len(accesses) :
        (WritesOutput(accesses[i]) /\ accesses[j].op = "read")
            => accesses[j].region = "header"

\* C19 witness: a GETATTR of a file has been answered; its handler read
\* header.nodeid after it had zeroed its output, and had read nothing of the
\* payload.
C19_Witness ==
    /\ Answered("FUSE_GETATTR")
    /\ request.nodeid # ROOT
    /\ reply.error = 0
    /\ \E i \in 1 .. Len(accesses) : \E j \in i + 1 .. Len(accesses) :
          WritesOutput(accesses[i]) /\ accesses[j] = RdHeader("nodeid")

====
